---- MODULE Spec2Model ----
(***************************************************************************)
(* Model of QMS_app.py: a Streamlit record-intake application.  Every user *)
(* script run allocates a record identifier per tab from a cached read of  *)
(* the tab's Google Sheet, optionally uploads an attachment and appends a  *)
(* row; "My Submissions" filters the cached rows by the user's name and    *)
(* the QA admin panel shows all cached rows behind a password.             *)
(*                                                                         *)
(* Text is modelled as a sequence of pieces.  Free text (identifiers,      *)
(* names, form values, dates) is written one character per piece, so that  *)
(* formatting, prefix tests, splitting, parsing and case folding are       *)
(* computed as the code computes them.  Fixed literals that the code never *)
(* takes apart (column titles, the Drive URL frame, messages) are one      *)
(* piece each.                                                             *)
(***************************************************************************)
EXTENDS Integers, Sequences, FiniteSets, TLC

----------------------------------------------------------------------------
(* Bounds of the model *)

\* seconds by which one Tick advances the clock
TickStep == 60
\* number of month boundaries crossed after the initial date
MaxRollovers == 1
\* number of records held (rows, submissions under way, unlinked files): in
\* the whole application, with filled forms in concurrent sessions, with
\* filled forms one script run at a time
MaxSubmits == 1
MaxRaceSubmits == 2
MaxSingleSubmits == 3
\* and with failing uploads and appends
MaxFailSubmits == 2
\* with filled forms in concurrent sessions, enough for a run to append
\* after two later ones
MaxLateSubmits == 3
\* seconds by which the clock advances where the age of a cache entry
\* matters, and the records held there
ShortStep == 25
MaxCacheSubmits == 2

\* st.cache_data(ttl=60)
TTL == 60

\* the date of the first script run: March 2025
StartDate == [month |-> 3, year |-> 2025]

----------------------------------------------------------------------------
(* Text helpers *)

Digits == <<"0", "1", "2", "3", "4", "5", "6", "7", "8", "9">>

IsDigit(c) == \E i \in 1..10 : Digits[i] = c

DigitVal(c) == (CHOOSE i \in 1..10 : Digits[i] = c) - 1

RECURSIVE Decimal(_)
\* the decimal digits of a natural number, most significant first
Decimal(n) == IF n < 10 THEN <<Digits[n + 1]>>
              ELSE Decimal(n \div 10) \o <<Digits[(n % 10) + 1]>>

\* left-pad with "0" to a minimum width; longer text is kept whole
ZeroPad(s, w) == IF Len(s) >= w THEN s ELSE [i \in 1..(w - Len(s)) |-> "0"] \o s

\* today.strftime("%m")
StrfMonth(today) == ZeroPad(Decimal(today.month), 2)

\* today.strftime("%y")
StrfYear2(today) == ZeroPad(Decimal(today.year % 100), 2)

\* today.strftime("%Y")
StrfYear4(today) == ZeroPad(Decimal(today.year), 4)

\* s.startswith(p)
StartsWith(s, p) == Len(p) <= Len(s) /\ SubSeq(s, 1, Len(p)) = p

Max(S) == CHOOSE x \in S : \A y \in S : y <= x

\* s.split("-")[-1]: the text after the last "-", the whole text without one
SplitLast(s) ==
    LET dashes == {i \in 1..Len(s) : s[i] = "-"}
        from == IF dashes = {} THEN 1 ELSE Max(dashes) + 1
    IN  SubSeq(s, from, Len(s))

RECURSIVE DigitsValue(_)
DigitsValue(s) == IF s = <<>> THEN 0
                  ELSE 10 * DigitsValue(SubSeq(s, 1, Len(s) - 1)) + DigitVal(s[Len(s)])

\* an exception raised by the code, written as a one-piece text where a text
\* is expected and as one row of one such cell where rows are expected
ValueError == <<"ValueError">>
IndexError == << << <<"IndexError">> >> >>

\* int(s) accepts s (text without sign, blanks or underscores): a non-empty
\* digit string; its value is then DigitsValue(s)
IntAccepts(s) == s # <<>> /\ \A i \in 1..Len(s) : IsDigit(s[i])

\* c.lower() on the letters the model uses
Upper == <<"A", "B", "C", "D", "E", "F", "G", "H", "I", "J", "K", "L", "M",
           "N", "O", "P", "Q", "R", "S", "T", "U", "V", "W", "X", "Y", "Z">>
LowerOf == <<"a", "b", "c", "d", "e", "f", "g", "h", "i", "j", "k", "l", "m",
             "n", "o", "p", "q", "r", "s", "t", "u", "v", "w", "x", "y", "z">>
Uppers == {Upper[i] : i \in 1..Len(Upper)}
LowerTable == [c \in Uppers |-> LowerOf[CHOOSE i \in 1..Len(Upper) : Upper[i] = c]]
LowerPiece(c) == IF c \in Uppers THEN LowerTable[c] ELSE c

\* cell.lower()
Lower(s) == [i \in 1..Len(s) |-> LowerPiece(s[i])]

----------------------------------------------------------------------------
(* Identifier allocation *)

\* f"{prefix}-{month}{year}"
IdStem(prefix, today) == prefix \o <<"-">> \o StrfMonth(today) \o StrfYear2(today)

\* the serial wraps to three digits
Format03d_wrap(n) == ZeroPad(Decimal(n % 1000), 3)

\* f"{n:03d}"
Format03d(n) == ZeroPad(Decimal(n), 3)

\* f"{prefix}-{month}{year}-{next_serial:03d}"
MakeId(prefix, today, next_serial) ==
    IdStem(prefix, today) \o <<"-">> \o Format03d(next_serial)

\* the prefix alone decides whether the serial continues
next_record_id_any_month(last_id, prefix, today) ==
    IF StartsWith(last_id, prefix \o <<"-">>)
    THEN IF IntAccepts(SplitLast(last_id))
         THEN MakeId(prefix, today, DigitsValue(SplitLast(last_id)) + 1)
         ELSE ValueError
    ELSE MakeId(prefix, today, 1)

\* the if on last_id and the return of generate_record_id: the identifier,
\* or ValueError when int() rejects the text after last_id's last "-"
next_record_id(last_id, prefix, today) ==
    IF StartsWith(last_id, IdStem(prefix, today))
    THEN IF IntAccepts(SplitLast(last_id))
         THEN LET last_serial == DigitsValue(SplitLast(last_id))
                  next_serial == last_serial + 1
              IN  MakeId(prefix, today, next_serial)
         ELSE ValueError
    ELSE LET next_serial == 1
         IN  MakeId(prefix, today, next_serial)

\* last_id = last_row[1] if len(last_row) > 1 else ""
IdCell(row) == IF Len(row) > 1 THEN row[2] ELSE <<>>

\* a single row is read as a data row
generate_record_id_one_row(cached_values, prefix, today) ==
    IF Len(cached_values) < 1
    THEN IdStem(prefix, today) \o <<"-", "0", "0", "1">>
    ELSE next_record_id(IdCell(cached_values[Len(cached_values)]), prefix, today)

\* the first data row is read instead of the last
generate_record_id_first_row(cached_values, prefix, today) ==
    IF Len(cached_values) < 2
    THEN IdStem(prefix, today) \o <<"-", "0", "0", "1">>
    ELSE next_record_id(IdCell(cached_values[2]), prefix, today)

\* generate_record_id after the cached read: cached_values is the list of
\* rows get_sheet_values_cached returned, today the month and year of
\* datetime.now()
generate_record_id(cached_values, prefix, today) ==
    IF Len(cached_values) < 2
    THEN IdStem(prefix, today) \o <<"-", "0", "0", "1">>
    ELSE LET last_row == cached_values[Len(cached_values)]
             last_id == IdCell(last_row)
         IN  next_record_id(last_id, prefix, today)

----------------------------------------------------------------------------
(* The sheets, the forms and the users *)

\* the tabs in script order, which is also the key order of sheets
Names == <<"Complaints", "Deviation", "Change Control">>
SheetNames == {Names[i] : i \in 1..Len(Names)}

\* every tab passes the complaints' prefix
Prefix_all_C(name) == <<"C">>

\* the prefix each tab passes to generate_record_id
Prefix(name) == CASE name = "Complaints" -> <<"C">>
                  [] name = "Deviation" -> <<"D">>
                  [] name = "Change Control" -> <<"C", "C">>

\* the first row of each sheet, created outside the application
Header(name) ==
    CASE name = "Complaints" ->
           << <<"Timestamp">>, <<"ID">>, <<"Product">>, <<"Severity">>,
              <<"Contact">>, <<"Details">>, <<"Submitted By">>, <<"File">> >>
      [] name = "Deviation" ->
           << <<"Timestamp">>, <<"ID">>, <<"Department">>, <<"Type">>,
              <<"Details">>, <<"Submitted By">>, <<"File">> >>
      [] name = "Change Control" ->
           << <<"Timestamp">>, <<"ID">>, <<"Type">>, <<"Justification">>,
              <<"Impact">>, <<"Submitted By">>, <<"File">> >>

\* user_name of the two sessions
Al == <<"A", "l">>
Bo == <<"B", "o">>
Users == {Al, Bo}

Empty == <<>>
X == <<"x">>
High == <<"H", "i", "g", "h">>
Minor == <<"M", "i", "n", "o", "r">>
Equipment == <<"E", "q", "u", "i", "p", "m", "e", "n", "t">>

\* The widget values of a tab in the order the script reads them.
\*   Complaints:     product, severity, contact_number, details
\*   Deviation:      department, deviation_type, deviation_description
\*   Change Control: change_type, justification, impact_analysis
\* Each tab offers a filled form, a form whose free text is another user's
\* name in lower case, and one form per empty text field.
Forms(name) ==
    CASE name = "Complaints" ->
           { <<X, High, X, X>>, <<Lower(Al), High, X, X>>,
             <<Empty, High, X, X>>, <<X, High, Empty, X>>, <<X, High, X, Empty>> }
      [] name = "Deviation" ->
           { <<X, Minor, X>>, <<Empty, Minor, X>>, <<X, Minor, Empty>> }
      [] name = "Change Control" ->
           { <<Equipment, X, X>>, <<Equipment, Empty, X>>, <<Equipment, X, Empty>> }

\* the complaint's contact number is not tested
Valid_without_contact(name, form) ==
    CASE name = "Complaints" -> form[1] # Empty /\ form[4] # Empty
      [] name = "Deviation" -> form[1] # Empty /\ form[3] # Empty
      [] name = "Change Control" -> form[1] # Empty /\ form[2] # Empty /\ form[3] # Empty

\* the condition of each submit button's inner if
Valid(name, form) ==
    CASE name = "Complaints" -> form[1] # Empty /\ form[4] # Empty /\ form[3] # Empty
      [] name = "Deviation" -> form[1] # Empty /\ form[3] # Empty
      [] name = "Change Control" -> form[1] # Empty /\ form[2] # Empty /\ form[3] # Empty

\* uploaded_file: None, or a file with a name
NoFile == <<>>
Files == {NoFile, <<"f">>}

AdminPassword == <<"qaadmin123">>
\* the password field: the password, another text, or left empty
Passwords == {AdminPassword, <<"guess">>, <<>>}


----------------------------------------------------------------------------
(* State *)

VARIABLES
    store,      \* the live rows of each Google Sheet
    cache,      \* the st.cache_data entry of get_sheet_values_cached per sheet
    today,      \* the month and year datetime.now() returns
    blobs,      \* the file names created in the Drive folder, in upload order
    sess,       \* per user: the position of the running script and its locals
    out,        \* what the step just taken rendered on its user's page, and
                \* the widget values its pressed button acted on
    burned,     \* history: the locals of the first run that upload_to_drive
                \* ended, in a set
    arg,        \* the inputs of a function applied on its own
    ret         \* its result

vars == <<store, cache, today, blobs, sess, out, burned, arg, ret>>

NoEntry == [present |-> FALSE, data |-> <<>>, age |-> 0]

\* a session between two script runs: its next run starts at the head of
\* the first tab's section, with no button seen pressed
Idle == [pc |-> "gen", tab |-> 1, pressed |-> FALSE, form |-> <<>>,
         file |-> NoFile, cached_values |-> <<>>, now |-> StartDate,
         id |-> <<>>, file_url |-> <<>>]

\* a step that renders nothing
Nothing == [user |-> <<>>, msg |-> "", data |-> <<>>, input |-> <<>>]

\* st.success, st.error or an uncaught exception in the run of user u;
\* input holds the widget values the pressed button's branch acted on
Says(u, msg, input) == [user |-> u, msg |-> msg, data |-> <<>>, input |-> input]

\* tables rendered for user u, one per sheet
Shows(u, msg, data, input) == [user |-> u, msg |-> msg, data |-> data, input |-> input]

NoCall == [op |-> "none"]

----------------------------------------------------------------------------
(* The cached read *)

\* the value get_sheet_values_cached(sheet_key) returns: the cached rows
\* while the entry lives, the live rows of sheet.get_all_values() otherwise
get_sheet_values_cached(name) ==
    IF cache[name].present THEN cache[name].data ELSE store[name]

\* every call reads the live sheet again
Cached_reread(name) == [present |-> TRUE, data |-> store[name], age |-> 0]

\* the cache entry of a sheet after get_sheet_values_cached(sheet_key)
Cached(name) ==
    IF cache[name].present THEN cache[name]
    ELSE [present |-> TRUE, data |-> store[name], age |-> 0]

\* the entry is kept whatever its age
Aged_kept(entry, seconds) ==
    IF entry.present
    THEN [entry EXCEPT !.age = entry.age + seconds]
    ELSE NoEntry

\* the cache entry of a sheet after some seconds: dropped at ttl
Aged(entry, seconds) ==
    IF entry.present /\ entry.age + seconds < TTL
    THEN [entry EXCEPT !.age = entry.age + seconds]
    ELSE NoEntry

----------------------------------------------------------------------------
(* My Submissions *)

\* the cells are compared as written
Mine_as_written(row, user_name) == \E i \in 1..Len(row) : row[i] = user_name

\* row matches user_name: user_name.lower() in [cell.lower() for cell in row]
Mine(row, user_name) ==
    LET lowered == Lower(user_name)
    IN  \E i \in 1..Len(row) : Lower(row[i]) = lowered

\* headers = data[0]; user_records = [row for row in data[1:] if ...]:
\* the rows shown under the header, IndexError on a sheet without any row
user_records(data, user_name) ==
    IF Len(data) = 0 THEN IndexError
    ELSE SelectSeq(Tail(data), LAMBDA row : Mine(row, user_name))

----------------------------------------------------------------------------
(* One script run of a session, step by step *)

\* datetime.now().strftime("%Y-%m-%d %H:%M:%S"); the model keeps the year
\* and the month of the clock only
Timestamp(now) == StrfYear4(now) \o <<"-">> \o StrfMonth(now)

\* upload_to_drive's return value for the file Drive created as number n
DriveUrl(n) == <<"https://drive.google.com/file/d/">> \o Decimal(n) \o <<"/view">>

\* the file keeps its own name
BlobName_plain(id, file) == file

\* f"{complaint_id}_{uploaded_file.name}"
BlobName(id, file) == id \o <<"_">> \o file

\* new_data of a tab
NewData(now, id, form, user_name, file_url) ==
    <<Timestamp(now), id>> \o form \o <<user_name, file_url>>

\* the script leaves the section of tab s.tab: on to the next tab's
\* generate_record_id, after the third tab on to My Submissions
NextSection(s) ==
    [Idle EXCEPT !.pc = IF s.tab < Len(Names) THEN "gen" ELSE "my",
                 !.tab = IF s.tab < Len(Names) THEN s.tab + 1 ELSE 0,
                 !.pressed = s.pressed]

\* the head of a tab's section (a widget interaction starts the script run
\* at the first): generate_record_id reads the cached sheet and the clock;
\* then the submit button's if and the required-field test.
\* button is what st.button returns here, form and file the values of the
\* section's widgets; a script run sees at most one button pressed.
Generate(u, button, form, file) ==
    LET s == sess[u]
        name == Names[s.tab]
        cached_values == get_sheet_values_cached(name)
        id == generate_record_id(cached_values, Prefix(name), today)
        t == [s EXCEPT !.cached_values = cached_values, !.now = today, !.id = id,
                       !.pressed = s.pressed \/ button]
    IN  /\ s.pc = "gen"
        /\ button => ~s.pressed
        /\ cache' = [cache EXCEPT ![name] = Cached(name)]
        /\ IF id = ValueError
           THEN /\ sess' = [sess EXCEPT ![u] = Idle]
                /\ out' = Says(u, "exception", <<>>)
           ELSE IF button
           THEN IF Valid(name, form)
                THEN /\ sess' = [sess EXCEPT ![u] =
                            [t EXCEPT !.pc = IF file # NoFile THEN "upload" ELSE "append",
                                      !.form = form, !.file = file]]
                     /\ out' = Nothing
                ELSE /\ sess' = [sess EXCEPT ![u] = NextSection(t)]
                     /\ out' = Says(u, "error", <<s.tab, form, file>>)
           ELSE /\ sess' = [sess EXCEPT ![u] = NextSection(t)]
                /\ out' = Nothing
        /\ UNCHANGED <<store, today, blobs, burned, arg, ret>>

\* upload_to_drive creates the file and returns its link
Upload(u) ==
    LET s == sess[u]
    IN  /\ s.pc = "upload"
        /\ blobs' = Append(blobs, BlobName(s.id, s.file))
        /\ sess' = [sess EXCEPT ![u] = [s EXCEPT !.pc = "append",
                                               !.file_url = DriveUrl(Len(blobs) + 1)]]
        /\ out' = Nothing
        /\ UNCHANGED <<store, cache, today, burned, arg, ret>>

\* the exception is swallowed and the row appended without a link
UploadFails_goes_on(u) ==
    /\ sess[u].pc = "upload"
    /\ sess' = [sess EXCEPT ![u].pc = "append"]
    /\ out' = Nothing
    /\ burned' = IF burned = {} THEN {sess[u]} ELSE burned
    /\ UNCHANGED <<store, cache, today, blobs, arg, ret>>

\* upload_to_drive raises: the script run ends there
UploadFails(u) ==
    /\ sess[u].pc = "upload"
    /\ sess' = [sess EXCEPT ![u] = Idle]
    /\ out' = Says(u, "exception", <<>>)
    /\ burned' = IF burned = {} THEN {sess[u]} ELSE burned
    /\ UNCHANGED <<store, cache, today, blobs, arg, ret>>

\* the append drops the sheet's cache entry
AppendRow_refreshes(u) ==
    LET s == sess[u]
        name == Names[s.tab]
        new_data == NewData(today, s.id, s.form, u, s.file_url)
    IN  /\ s.pc = "append"
        /\ store' = [store EXCEPT ![name] = Append(store[name], new_data)]
        /\ cache' = [cache EXCEPT ![name] = NoEntry]
        /\ sess' = [sess EXCEPT ![u] = NextSection(s)]
        /\ out' = Says(u, "success", <<>>)
        /\ UNCHANGED <<today, blobs, burned, arg, ret>>

\* the new row is inserted as the first row of the sheet
AppendRow_inserts_first(u) ==
    LET s == sess[u]
        name == Names[s.tab]
        new_data == NewData(today, s.id, s.form, u, s.file_url)
    IN  /\ s.pc = "append"
        /\ store' = [store EXCEPT ![name] = <<new_data>> \o store[name]]
        /\ sess' = [sess EXCEPT ![u] = NextSection(s)]
        /\ out' = Says(u, "success", <<>>)
        /\ UNCHANGED <<cache, today, blobs, burned, arg, ret>>

\* new_data is composed at the present clock and appended to the live sheet
AppendRow(u) ==
    LET s == sess[u]
        name == Names[s.tab]
        new_data == NewData(today, s.id, s.form, u, s.file_url)
    IN  /\ s.pc = "append"
        /\ store' = [store EXCEPT ![name] = Append(store[name], new_data)]
        /\ sess' = [sess EXCEPT ![u] = NextSection(s)]
        /\ out' = Says(u, "success", <<>>)
        /\ UNCHANGED <<cache, today, blobs, burned, arg, ret>>

\* append_row raises: the script run ends there
AppendFails(u) ==
    /\ sess[u].pc = "append"
    /\ sess' = [sess EXCEPT ![u] = Idle]
    /\ out' = Says(u, "exception", <<>>)
    /\ UNCHANGED <<store, cache, today, blobs, burned, arg, ret>>

\* My Submissions: a cached read of every sheet, each filtered by user_name
MySubmissions(u) ==
    LET sheet_data == [name \in SheetNames |-> get_sheet_values_cached(name)]
        broken == \E name \in SheetNames : Len(sheet_data[name]) = 0
    IN  /\ sess[u].pc = "my"
        /\ cache' = [name \in SheetNames |-> Cached(name)]
        /\ IF broken
           THEN /\ sess' = [sess EXCEPT ![u] = Idle]
                /\ out' = Says(u, "exception", <<>>)
           ELSE /\ sess' = [sess EXCEPT ![u].pc = "admin"]
                /\ out' = Shows(u, "mine",
                              [name \in SheetNames |-> user_records(sheet_data[name], u)],
                              <<>>)
        /\ UNCHANGED <<store, today, blobs, burned, arg, ret>>

\* any password that is not empty opens the panel
AccessGranted_nonempty(password) == password # <<>>

\* admin_password == "qaadmin123"
AccessGranted(password) == password = AdminPassword

\* a sheet's tab of the panel: st.dataframe(data) of every row when there is
\* one under the first, st.info and no row otherwise
AdminTable(data) == IF Len(data) > 1 THEN data ELSE <<>>

\* QA Admin Panel: behind its button, the password test, then a cached read
\* of every sheet shown whole.  button is what st.button returns here,
\* password the value of the password field.
AdminPanel(u, button, password) ==
    LET s == sess[u]
        sheet_data == [name \in SheetNames |-> get_sheet_values_cached(name)]
    IN  /\ s.pc = "admin"
        /\ button => ~s.pressed
        /\ sess' = [sess EXCEPT ![u] = Idle]
        /\ IF button
           THEN IF AccessGranted(password)
                THEN /\ cache' = [name \in SheetNames |-> Cached(name)]
                     /\ out' = Shows(u, "granted",
                                   [name \in SheetNames |-> AdminTable(sheet_data[name])],
                                   <<password>>)
                ELSE /\ out' = Says(u, "denied", <<password>>)
                     /\ UNCHANGED cache
           ELSE /\ out' = Nothing
                /\ UNCHANGED cache
        /\ UNCHANGED <<store, today, blobs, burned, arg, ret>>

----------------------------------------------------------------------------
(* The environment *)

\* some seconds pass
Pass(seconds) ==
    /\ \E name \in SheetNames : cache[name].present
    /\ cache' = [name \in SheetNames |-> Aged(cache[name], seconds)]
    /\ out' = Nothing
    /\ UNCHANGED <<store, today, blobs, sess, burned, arg, ret>>

\* TickStep seconds pass
Tick == Pass(TickStep)

MonthsSince(d) == (d.year - StartDate.year) * 12 + (d.month - StartDate.month)

NextDate(d) == IF d.month = 12 THEN [month |-> 1, year |-> d.year + 1]
               ELSE [month |-> d.month + 1, year |-> d.year]

\* the clock passes a month boundary
NextMonth ==
    /\ MonthsSince(today) < MaxRollovers
    /\ today' = NextDate(today)
    /\ out' = Nothing
    /\ UNCHANGED <<store, cache, blobs, sess, burned, arg, ret>>

----------------------------------------------------------------------------
(* The application with concurrent sessions *)

Init ==
    /\ store = [name \in SheetNames |-> <<Header(name)>>]
    /\ cache = [name \in SheetNames |-> NoEntry]
    /\ today = StartDate
    /\ blobs = <<>>
    /\ sess = [u \in Users |-> Idle]
    /\ out = Nothing
    /\ burned = {}
    /\ arg = NoCall
    /\ ret = <<>>

\* the rows of a sheet under its first row
DataRows(name) == Len(store[name]) - 1

RECURSIVE Sum(_, _)
\* the sum of f over the finite set S
Sum(f, S) == IF S = {} THEN 0
             ELSE LET x == CHOOSE y \in S : TRUE IN f[x] + Sum(f, S \ {x})

\* the records the model holds: the rows appended, the submissions under
\* way, and the files in the Drive folder that no row and no submission
\* under way links to
Used ==
    LET rows == Sum([name \in SheetNames |-> DataRows(name)], SheetNames)
        linked == Sum([name \in SheetNames |->
                        Cardinality({i \in 2..Len(store[name]) :
                            store[name][i][Len(store[name][i])] # Empty})], SheetNames)
        under_way == Cardinality({u \in Users : sess[u].pc \in {"upload", "append"}})
        holding == Cardinality({u \in Users : sess[u].file_url # Empty})
    IN  rows + under_way + (Len(blobs) - linked - holding)

\* the section of a tab with its button not pressed, or pressed with one of
\* the forms and files
Section(u) ==
    /\ sess[u].pc = "gen"
    /\ \/ Generate(u, FALSE, <<>>, NoFile)
       \/ /\ Used < MaxSubmits
          /\ \E form \in Forms(Names[sess[u].tab]) : \E file \in Files :
                Generate(u, TRUE, form, file)

\* the admin panel with its button not pressed, or pressed with a password
Panel(u) ==
    \/ AdminPanel(u, FALSE, <<>>)
    \/ \E password \in Passwords : AdminPanel(u, TRUE, password)

Next ==
    \/ \E u \in Users : Section(u)
    \/ \E u \in Users : Upload(u)
    \/ \E u \in Users : UploadFails(u)
    \/ \E u \in Users : AppendRow(u)
    \/ \E u \in Users : AppendFails(u)
    \/ \E u \in Users : MySubmissions(u)
    \/ \E u \in Users : Panel(u)
    \/ Tick
    \/ NextMonth

Spec == Init /\ [][Next]_vars

----------------------------------------------------------------------------
(* Submissions of one record type, complaints, with every field filled and  *)
(* no attachment, every append succeeding: in concurrent sessions, and one  *)
(* script run at a time                                                     *)

\* the form of a tab with every field filled
Filled(name) == CHOOSE form \in Forms(name) :
                   \A i \in 1..Len(form) : form[i] \notin {Empty, Lower(Al)}

SectionFilled(u, limit) ==
    /\ sess[u].pc = "gen"
    /\ \/ Generate(u, FALSE, <<>>, NoFile)
       \/ /\ Used < limit
          /\ Names[sess[u].tab] = "Complaints"
          /\ Generate(u, TRUE, Filled("Complaints"), NoFile)

\* a script run starts only while no other session's run is under way
SectionAlone(u) ==
    /\ sess[u] = Idle => \A v \in Users : sess[v] = Idle
    /\ SectionFilled(u, MaxSingleSubmits)

NextRace ==
    \/ \E u \in Users : SectionFilled(u, MaxRaceSubmits)
    \/ \E u \in Users : AppendRow(u)
    \/ \E u \in Users : MySubmissions(u)
    \/ \E u \in Users : AdminPanel(u, FALSE, <<>>)
    \/ Tick
    \/ NextMonth

SpecRace == Init /\ [][NextRace]_vars

NextSingle ==
    \/ \E u \in Users : SectionAlone(u)
    \/ \E u \in Users : AppendRow(u)
    \/ \E u \in Users : MySubmissions(u)
    \/ \E u \in Users : AdminPanel(u, FALSE, <<>>)
    \/ Tick
    \/ NextMonth

SpecSingle == Init /\ [][NextSingle]_vars

NextLate ==
    \/ \E u \in Users : SectionFilled(u, MaxLateSubmits)
    \/ \E u \in Users : AppendRow(u)
    \/ \E u \in Users : MySubmissions(u)
    \/ \E u \in Users : AdminPanel(u, FALSE, <<>>)
    \/ Tick
    \/ NextMonth

SpecLate == Init /\ [][NextLate]_vars

\* concurrent sessions with filled complaint forms, the clock advancing in
\* steps shorter than the ttl
NextCache ==
    \/ \E u \in Users : SectionFilled(u, MaxCacheSubmits)
    \/ \E u \in Users : AppendRow(u)
    \/ \E u \in Users : MySubmissions(u)
    \/ \E u \in Users : AdminPanel(u, FALSE, <<>>)
    \/ Pass(ShortStep)

SpecCache == Init /\ [][NextCache]_vars

\* every section, form, file and password, one script run at a time, every
\* upload and append succeeding
SectionSolo(u) ==
    /\ sess[u] = Idle => \A v \in Users : sess[v] = Idle
    /\ Section(u)

NextSolo ==
    \/ \E u \in Users : SectionSolo(u)
    \/ \E u \in Users : Upload(u)
    \/ \E u \in Users : AppendRow(u)
    \/ \E u \in Users : MySubmissions(u)
    \/ \E u \in Users : Panel(u)
    \/ Tick
    \/ NextMonth

SpecSolo == Init /\ [][NextSolo]_vars

\* no script run is under way
BetweenRuns == \A v \in Users : sess[v] = Idle

\* complaints with the filled form, with and without a file, one script run
\* at a time, uploads and appends succeeding or failing, the clock moving
\* between the runs
SectionFiled(u) ==
    /\ sess[u].pc = "gen"
    /\ sess[u] = Idle => BetweenRuns
    /\ \/ Generate(u, FALSE, <<>>, NoFile)
       \/ /\ Used < MaxFailSubmits
          /\ Names[sess[u].tab] = "Complaints"
          /\ \E file \in Files : Generate(u, TRUE, Filled("Complaints"), file)

NextFail ==
    \/ \E u \in Users : SectionFiled(u)
    \/ \E u \in Users : Upload(u)
    \/ \E u \in Users : UploadFails(u)
    \/ \E u \in Users : AppendRow(u)
    \/ \E u \in Users : AppendFails(u)
    \/ \E u \in Users : MySubmissions(u)
    \/ \E u \in Users : AdminPanel(u, FALSE, <<>>)
    \/ BetweenRuns /\ Tick
    \/ BetweenRuns /\ NextMonth

SpecFail == Init /\ [][NextFail]_vars

----------------------------------------------------------------------------
(* generate_record_id applied on its own to snapshots of every shape *)

\* rows of a snapshot above its last row
MaxAbove == 2

\* the dates allocate is applied at, each with its MMYY text
AllocDates == { [month |-> 3, year |-> 2025, mmyy |-> <<"0", "3", "2", "5">>],
                [month |-> 4, year |-> 2025, mmyy |-> <<"0", "4", "2", "5">>],
                [month |-> 12, year |-> 2099, mmyy |-> <<"1", "2", "9", "9">>],
                [month |-> 1, year |-> 2100, mmyy |-> <<"0", "1", "0", "0">>] }

March2025 == CHOOSE d \in AllocDates : d.month = 3 /\ d.year = 2025
April2025 == CHOOSE d \in AllocDates : d.month = 4 /\ d.year = 2025

AllocPrefixes == { <<"C">>, <<"D">>, <<"C", "C">> }

\* serial texts, each with the text of the serial that follows it
AllocSerials ==
    { [text |-> <<"0", "0", "1">>, next |-> <<"0", "0", "2">>],
      [text |-> <<"0", "0", "9">>, next |-> <<"0", "1", "0">>],
      [text |-> <<"0", "9", "9">>, next |-> <<"1", "0", "0">>],
      [text |-> <<"5", "0", "0">>, next |-> <<"5", "0", "1">>],
      [text |-> <<"9", "9", "8">>, next |-> <<"9", "9", "9">>],
      [text |-> <<"9", "9", "9">>, next |-> <<"1", "0", "0", "0">>],
      [text |-> <<"1", "0", "0", "0">>, next |-> <<"1", "0", "0", "1">>] }

\* the identifier text PREFIX-MMYY-SERIAL, written out
IdText(prefix, mmyy, serial) == prefix \o <<"-">> \o mmyy \o <<"-">> \o serial

\* a data row with the given text in the identifier column
IdRow(id) == << <<"t">>, id, X >>

\* a row without the identifier column
ShortRow == << <<"t">> >>

\* identifier cells that are no identifier: no text, a title
AllocOther == {Empty, <<"ID">>}

\* the identifier cells a last row is drawn with: every identifier the
\* script can have written, the cells that are none, and a serial int()
\* rejects
AllocIds ==
    {IdText(p, d.mmyy, n.text) : p \in AllocPrefixes, d \in AllocDates, n \in AllocSerials}
    \cup AllocOther \cup {IdText(<<"C">>, March2025.mmyy, <<"0", "0", "x">>)}

\* the last rows: a row per identifier cell, and a row without that column
AllocLastRows == {IdRow(id) : id \in AllocIds} \cup {ShortRow}

\* the rows above the last one: a header, or a row with a high serial
AllocAbove == {Header("Complaints"),
               IdRow(IdText(<<"C">>, March2025.mmyy, <<"5", "0", "0">>))}

RECURSIVE SeqsUpTo(_, _)
\* the sequences over S of length at most n
SeqsUpTo(S, n) ==
    IF n = 0 THEN {<<>>}
    ELSE LET shorter == SeqsUpTo(S, n - 1)
         IN  shorter \cup {Append(q, x) : q \in shorter, x \in S}

AllocSnapshots ==
    {<<>>} \cup {Append(above, last) : above \in SeqsUpTo(AllocAbove, MaxAbove),
                                       last \in AllocLastRows}

InitAlloc ==
    /\ store = [name \in SheetNames |-> <<Header(name)>>]
    /\ cache = [name \in SheetNames |-> NoEntry]
    /\ today = StartDate
    /\ blobs = <<>>
    /\ sess = [u \in Users |-> Idle]
    /\ out = Nothing
    /\ burned = {}
    /\ \E snapshot \in AllocSnapshots : \E prefix \in AllocPrefixes : \E now \in AllocDates :
          arg = [op |-> "allocate", snapshot |-> snapshot, prefix |-> prefix, now |-> now]
    /\ ret = <<>>

\* allocate(snapshot, prefix, now)
Allocate ==
    /\ arg.op = "allocate"
    /\ ret = <<>>
    /\ ret' = <<generate_record_id(arg.snapshot, arg.prefix, arg.now)>>
    /\ UNCHANGED <<store, cache, today, blobs, sess, out, burned, arg>>

NextAlloc == Allocate

SpecAlloc == InitAlloc /\ [][NextAlloc]_vars

\* allocate has returned
Allocated == arg.op = "allocate" /\ ret # <<>>

\* the last row of the snapshot allocate was applied to
ArgLast == arg.snapshot[Len(arg.snapshot)]

\* the first identifier of the current month for the current prefix
First == IdText(arg.prefix, arg.now.mmyy, <<"0", "0", "1">>)

\* C4: on a snapshot with fewer than 2 rows (no row at all, or one row)
\* allocate returns {prefix}-{MM}{YY}-001 for every prefix and every month;
\* the cells of the one row are not read as an identifier.
C4_FewerThanTwoRows ==
    (Allocated /\ Len(arg.snapshot) < 2) => ret[1] = First

\* allocate has returned 001 on a snapshot whose only row holds an
\* identifier of the current prefix and month in column 1
C4_Witness ==
    /\ Allocated
    /\ arg.snapshot = <<IdRow(IdText(arg.prefix, arg.now.mmyy, <<"0", "0", "9">>))>>
    /\ ret[1] = First

\* C5: on a snapshot of at least 2 rows whose last row's identifier is one
\* of the current prefix, month and year, allocate returns the identifier of
\* that prefix and MMYY whose serial is the last row's serial plus 1, padded
\* to 3 digits; the rows above the last one do not count.
C5_LastSerialPlusOne ==
    \A n \in AllocSerials :
        (/\ Allocated
         /\ Len(arg.snapshot) >= 2
         /\ ArgLast = IdRow(IdText(arg.prefix, arg.now.mmyy, n.text)))
        => ret[1] = IdText(arg.prefix, arg.now.mmyy, n.next)

\* allocate has returned 002 on a snapshot whose last row has serial 001
\* under a row of the same month with serial 500
C5_Witness ==
    /\ Allocated
    /\ arg.prefix = <<"C">>
    /\ arg.now = March2025
    /\ arg.snapshot = << Header("Complaints"),
                         IdRow(IdText(<<"C">>, March2025.mmyy, <<"5", "0", "0">>)),
                         IdRow(IdText(<<"C">>, March2025.mmyy, <<"0", "0", "1">>)) >>
    /\ ret[1] = IdText(<<"C">>, March2025.mmyy, <<"0", "0", "2">>)

\* the last row holds an identifier of another prefix or another month or
\* year than the current one, or no identifier
ArgLastIsForeign ==
    \/ ArgLast = ShortRow
    \/ \E id \in AllocOther : ArgLast = IdRow(id)
    \/ \E p \in AllocPrefixes : \E d \in AllocDates : \E n \in AllocSerials :
          /\ ArgLast = IdRow(IdText(p, d.mmyy, n.text))
          /\ p # arg.prefix \/ d.mmyy # arg.now.mmyy

\* C6: on a snapshot of at least 2 rows whose last row's identifier has
\* another month or year or another prefix than the current one, or whose
\* last row has no identifier cell, allocate returns {prefix}-{MM}{YY}-001.
C6_ResetsToFirst ==
    (Allocated /\ Len(arg.snapshot) >= 2 /\ ArgLastIsForeign) => ret[1] = First

\* allocate has returned C-0425-001 in April 2025 on a snapshot that ends
\* with C-0325-009
C6_Witness ==
    /\ Allocated
    /\ arg.prefix = <<"C">>
    /\ arg.now = April2025
    /\ Len(arg.snapshot) >= 2
    /\ ArgLast = IdRow(IdText(<<"C">>, March2025.mmyy, <<"0", "0", "9">>))
    /\ ret[1] = IdText(<<"C">>, April2025.mmyy, <<"0", "0", "1">>)

\* the serial of the last row in the current prefix and month, where the
\* last row is of the current prefix and month
ArgLastSerialIs(text) ==
    /\ Len(arg.snapshot) >= 2
    /\ ArgLast = IdRow(IdText(arg.prefix, arg.now.mmyy, text))

\* the text after the MMYY- of an identifier of the current prefix
SerialPart(id) == SubSeq(id, Len(arg.prefix) + 7, Len(id))

\* id is PREFIX-MMYY- of the current prefix and month followed by digits
WellFormed(id) ==
    /\ Len(id) > Len(arg.prefix) + 6
    /\ SubSeq(id, 1, Len(arg.prefix) + 6) = arg.prefix \o <<"-">> \o arg.now.mmyy \o <<"-">>
    /\ \A i \in 1..Len(SerialPart(id)) : IsDigit(SerialPart(id)[i])

\* C8: an identifier allocate returns is PREFIX-MMYY-SSS with exactly 3
\* serial digits unless the last row is of the current prefix and month with
\* a serial above 998; on a last serial of 999 it returns serial 1000, four
\* digits, neither wrapping nor failing.
C8_ThreeDigitsUpTo998 ==
    /\ (/\ Allocated
        /\ ret[1] # ValueError
        /\ ~ArgLastSerialIs(<<"9", "9", "9">>)
        /\ ~ArgLastSerialIs(<<"1", "0", "0", "0">>))
       => WellFormed(ret[1]) /\ Len(SerialPart(ret[1])) = 3
    /\ (Allocated /\ ArgLastSerialIs(<<"9", "9", "9">>))
       => ret[1] = IdText(arg.prefix, arg.now.mmyy, <<"1", "0", "0", "0">>)

\* allocate has returned serial 1000 on a last serial of 999
C8_Witness ==
    /\ Allocated
    /\ ArgLastSerialIs(<<"9", "9", "9">>)
    /\ SerialPart(ret[1]) = <<"1", "0", "0", "0">>

----------------------------------------------------------------------------
(* The My Submissions filter applied on its own *)

\* data rows of a snapshot under its header
MaxMineRows == 2

MineNames == {Al, <<"A", "L">>, Bo}

MineCells == {Al, Lower(Al), <<"a", "L">>, <<"A", "l", "x">>, <<"A">>, Bo, Empty}

MineRows == {<<a, b>> : a \in MineCells, b \in MineCells}

MineSnapshots ==
    {<<>>} \cup {<<Header("Complaints")>> \o rows : rows \in SeqsUpTo(MineRows, MaxMineRows)}

InitMine ==
    /\ store = [name \in SheetNames |-> <<Header(name)>>]
    /\ cache = [name \in SheetNames |-> NoEntry]
    /\ today = StartDate
    /\ blobs = <<>>
    /\ sess = [u \in Users |-> Idle]
    /\ out = Nothing
    /\ burned = {}
    /\ \E snapshot \in MineSnapshots : \E name \in MineNames :
          arg = [op |-> "filterMine", snapshot |-> snapshot, name |-> name]
    /\ ret = <<>>

\* filterMine(snapshot, submitterName)
FilterMine ==
    /\ arg.op = "filterMine"
    /\ ret = <<>>
    /\ ret' = <<user_records(arg.snapshot, arg.name)>>
    /\ UNCHANGED <<store, cache, today, blobs, sess, out, burned, arg>>

NextMine == FilterMine

SpecMine == InitMine /\ [][NextMine]_vars

\* filterMine has returned
Filtered == arg.op = "filterMine" /\ ret # <<>>

\* two letters that differ in case only
CasePair(x, y) == \E k \in 1..Len(Upper) : {x, y} = {Upper[k], LowerOf[k]}

\* two texts equal up to the case of their letters
SameIgnoringCase(a, b) ==
    /\ Len(a) = Len(b)
    /\ \A i \in 1..Len(a) : a[i] = b[i] \/ CasePair(a[i], b[i])

\* the positions of the rows under the header with a cell equal to the name
\* up to case
ArgMatches ==
    {i \in 2..Len(arg.snapshot) :
        \E c \in 1..Len(arg.snapshot[i]) : SameIgnoringCase(arg.snapshot[i][c], arg.name)}

\* the k-th smallest element of a set of numbers
Kth(S, k) == CHOOSE i \in S : Cardinality({j \in S : j <= i}) = k

----------------------------------------------------------------------------
(* Claims about the running application *)

\* the identifier cell and the submitter cell of a data row
IdOf(row) == row[2]
SubmitterOf(row) == row[Len(row) - 1]

\* the positions of the data rows of a sheet
Rows(name) == 2..Len(store[name])

\* C1: in every interleaving of submissions of one record type by different
\* users, each a cached read, an allocation and an append, no two rows of
\* that type's sheet submitted by different users carry the same RecordId.
C1_NoSharedRecordId ==
    \A name \in SheetNames : \A i, j \in Rows(name) :
        SubmitterOf(store[name][i]) # SubmitterOf(store[name][j])
        => IdOf(store[name][i]) # IdOf(store[name][j])

\* the PREFIX-MMYY of an identifier the script wrote
StemOf(id) == SubSeq(id, 1, Len(id) - Len(SplitLast(id)) - 1)

\* the number of rows of a sheet up to row i with the PREFIX-MMYY of row i
RankInPartition(name, i) ==
    Cardinality({j \in Rows(name) :
        j <= i /\ StemOf(IdOf(store[name][j])) = StemOf(IdOf(store[name][i]))})

\* C2: with one script run at a time and every append succeeding, the
\* serials of the rows of one (prefix, MM, YY) partition are, in insertion
\* order, 001, 002, 003, ...: each row's serial is its rank in its partition,
\* whatever time passed between the submissions.
C2_SerialsCountUp ==
    \A name \in SheetNames : \A i \in Rows(name) :
        DigitsValue(SplitLast(IdOf(store[name][i]))) = RankInPartition(name, i)

\* three complaints are stored, the first two composed in March 2025 and
\* the third in April 2025
ThreeComplaints ==
    /\ Len(store["Complaints"]) = 4
    /\ store["Complaints"][2][1] = <<"2", "0", "2", "5", "-", "0", "3">>
    /\ store["Complaints"][3][1] = <<"2", "0", "2", "5", "-", "0", "3">>
    /\ store["Complaints"][4][1] = <<"2", "0", "2", "5", "-", "0", "4">>

\* C3: from an empty Complaints sheet, three successful submissions one
\* after another, two in March 2025 and one in April 2025, are stored as
\* C-0325-001, C-0325-002 and C-0425-001 in that order.
C3_MarchMarchApril ==
    ThreeComplaints =>
        /\ IdOf(store["Complaints"][2]) = <<"C", "-", "0", "3", "2", "5", "-", "0", "0", "1">>
        /\ IdOf(store["Complaints"][3]) = <<"C", "-", "0", "3", "2", "5", "-", "0", "0", "2">>
        /\ IdOf(store["Complaints"][4]) = <<"C", "-", "0", "4", "2", "5", "-", "0", "0", "1">>

\* the session of u holds an identifier it allocated and has not yet stored
Holding(u) == sess[u].pc \in {"upload", "append"}

\* sessions holding identifiers allocated for the same tab from the same
\* rows in the same month hold the same identifier
SameInputsSameId ==
    \A u, v \in Users :
        (/\ Holding(u) /\ Holding(v)
         /\ sess[u].tab = sess[v].tab
         /\ sess[u].cached_values = sess[v].cached_values
         /\ sess[u].now = sess[v].now)
        => sess[u].id = sess[v].id

\* the step is a call of generate_record_id in the session of u
Generates(u) == sess[u].pc = "gen" /\ sess'[u] # sess[u]

C10_OnlyOwnRows ==
    out.msg = "mine" =>
        \A name \in SheetNames : \A k \in 1..Len(out.data[name]) :
            SubmitterOf(out.data[name][k]) = out.user

----------------------------------------------------------------------------
(* The QA Admin Panel *)

\* the step is the panel's button pressed in the session of u
PanelPressed(u) == sess[u].pc = "admin" /\ sess'[u] # sess[u] /\ out'.input # <<>>

\* C11, as amended: a pressed panel with another password than the
\* configured one says access denied, shows no row and reads no sheet; with
\* the configured password it shows, for each of the three sheets, every
\* row of the snapshot get_sheet_values_cached returns (the cached rows
\* while the entry lives), whoever submitted them.
C11_AdminSeesSnapshots ==
    [][\A u \in Users : PanelPressed(u) =>
          /\ out'.user = u
          /\ IF out'.input = <<AdminPassword>>
             THEN /\ out'.msg = "granted"
                  /\ DOMAIN out'.data = SheetNames
                  /\ \A name \in SheetNames :
                        out'.data[name] = AdminTable(get_sheet_values_cached(name))
             ELSE /\ out'.msg = "denied"
                  /\ out'.data = <<>>
                  /\ cache' = cache
      ]_vars

\* Al is shown a complaint Bo submitted
C11_Witness ==
    /\ out.msg = "granted" /\ out.user = Al
    /\ out.input = <<AdminPassword>>
    /\ \E k \in 1..Len(out.data["Complaints"]) :
          SubmitterOf(out.data["Complaints"][k]) = Bo

\* C11 as stated: access denied shows no row, access granted shows every
\* row of the three sheets
C11_AdminSeesAllRows ==
    /\ out.msg = "denied" => out.data = <<>>
    /\ out.msg = "granted" =>
          \A name \in SheetNames : out.data[name] = AdminTable(store[name])

----------------------------------------------------------------------------
(* Required fields *)

\* the positions of the required fields among a tab's widget values
Required(name) == CASE name = "Complaints" -> {1, 3, 4}
                    [] name = "Deviation" -> {1, 3}
                    [] name = "Change Control" -> {1, 2, 3}

Missing(name, form) == \E i \in Required(name) : form[i] = Empty

\* widget values of a tab with any of its cells empty or filled
AnyForms(name) == [1..Len(Header(name)) - 4 -> {Empty, X}]

\* the step is a submit button pressed in the session of u
SubmitPressed(u) == sess[u].pc = "gen" /\ ~sess[u].pressed /\ sess'[u].pressed

\* C12: a submission with a required field missing ends in the validation
\* error and changes nothing: no row is appended, no file is uploaded,
\* attachment or not; a submission goes on to upload and append only with
\* every required field filled, and whether it does depends on the
\* required fields alone (not on severity or deviation type).
C12_MissingFieldChangesNothing ==
    [][/\ \A u \in Users : SubmitPressed(u) =>
             IF Holding(u)'
             THEN ~Missing(Names[sess'[u].tab], sess'[u].form)
             ELSE /\ out'.user = u /\ out'.msg = "error"
                  /\ Missing(Names[out'.input[1]], out'.input[2])
                  /\ store' = store /\ blobs' = blobs
       /\ (store' # store \/ blobs' # blobs) =>
             \E u \in Users : Holding(u) /\ ~Missing(Names[sess[u].tab], sess[u].form)
       /\ \A name \in SheetNames : \A form \in AnyForms(name) :
             Valid(name, form) <=> ~Missing(name, form)
      ]_vars

\* a complaint without contact number and with an attachment was refused,
\* and no sheet has a row and the folder no file
C12_Witness ==
    /\ out.msg = "error"
    /\ out.input[1] = 1 /\ out.input[2][3] = Empty /\ out.input[3] # NoFile
    /\ blobs = <<>>
    /\ \A name \in SheetNames : store[name] = <<Header(name)>>

----------------------------------------------------------------------------
(* A failed upload *)

\* the step is a failed upload_to_drive in the session of u
UploadFailed(u) == sess[u].pc = "upload" /\ sess'[u] # sess[u] /\ blobs' = blobs

\* C13, as amended: a failed upload ends its run there: no row is appended,
\* no file created, no cache entry touched, so that submission never writes
\* its identifier; the identifier is not reserved: a later submission of
\* the type that reads the same rows in the same month holds it again.
C13_FailedUploadWritesNothing ==
    [][/\ \A u \in Users : UploadFailed(u) =>
             /\ sess'[u] = Idle
             /\ out' = Says(u, "exception", <<>>)
             /\ store' = store /\ cache' = cache
       /\ \A b \in burned' : \A v \in Users :
             (/\ Holding(v)'
              /\ sess'[v].tab = b.tab
              /\ sess'[v].cached_values = b.cached_values
              /\ sess'[v].now = b.now)
             => sess'[v].id = b.id
      ]_vars

\* after a failed upload a later run holds the identifier the failed one held
C13_Witness ==
    \E b \in burned : \E v \in Users :
        /\ sess[v].pc = "append" /\ sess[v].file = NoFile
        /\ sess[v].id = b.id
        /\ \A k \in Rows("Complaints") : IdOf(store["Complaints"][k]) # b.id

\* C13 as stated: an identifier held by a run whose upload failed is in no
\* row of any sheet afterwards
C13_BurnedNeverStored ==
    \A b \in burned : \A name \in SheetNames : \A k \in Rows(name) :
        IdOf(store[name][k]) # b.id

----------------------------------------------------------------------------
(* The sheets as append-only logs *)

\* sheet name after the step is the sheet before it with one row added at
\* its end
ExtendedByOne(name) ==
    /\ Len(store'[name]) = Len(store[name]) + 1
    /\ SubSeq(store'[name], 1, Len(store[name])) = store[name]

\* C14: every step leaves every sheet as it was, except that a successful
\* submission adds exactly one row at the end of its own type's sheet and
\* changes no other sheet; no step changes, reorders or removes a row.
C14_AppendOnly ==
    [][/\ \A name \in SheetNames : store'[name] = store[name] \/ ExtendedByOne(name)
       /\ \A u \in Users :
             IF sess[u].pc = "append" /\ out' = Says(u, "success", <<>>)
             THEN /\ ExtendedByOne(Names[sess[u].tab])
                  /\ \A name \in SheetNames \ {Names[sess[u].tab]} :
                        store'[name] = store[name]
             ELSE sess'[u] # sess[u] => store' = store
      ]_vars

\* after a failed upload, a second complaint was appended under the first
C14_Witness ==
    /\ Len(store["Complaints"]) = 3
    /\ burned # {}
    /\ out.msg = "success"

----------------------------------------------------------------------------
(* Order of the serials *)

\* C15: in each sheet, of two rows of one (prefix, MM, YY) partition the
\* one appended later never carries the lower serial, whatever the
\* interleaving of the submissions.
C15_SerialsNeverDecrease ==
    \A name \in SheetNames : \A i, j \in Rows(name) :
        (i < j /\ StemOf(IdOf(store[name][i])) = StemOf(IdOf(store[name][j])))
        => DigitsValue(SplitLast(IdOf(store[name][i])))
              <= DigitsValue(SplitLast(IdOf(store[name][j])))

----------------------------------------------------------------------------
(* The cached snapshots *)

\* rows a are the first rows of rows b
IsPrefix(a, b) == Len(a) <= Len(b) /\ SubSeq(b, 1, Len(a)) = a

\* the step lets time pass: the cache changes and no session moves
TimePasses == cache' # cache /\ sess' = sess

\* C16: a snapshot a fetch returns is the whole sheet as it was when its
\* cache entry was made, less than TTL seconds before: a fetch without a
\* live entry reads the live sheet whole at that time and makes the entry
\* with age 0; a fetch with a live entry returns the entry; an entry keeps
\* its rows, ages with the clock and is gone at TTL; the sheet since then
\* only gained rows.
C16_SnapshotsAreRecent ==
    [][/\ \A name \in SheetNames :
             /\ cache'[name].present =>
                   /\ cache'[name].age < TTL
                   /\ IsPrefix(cache'[name].data, store'[name])
             /\ (~cache[name].present /\ cache'[name].present) =>
                   cache'[name] = [present |-> TRUE, data |-> store[name], age |-> 0]
             /\ (cache[name].present /\ cache'[name].present) =>
                   cache'[name].data = cache[name].data
       /\ TimePasses =>
             \E d \in 1..TTL : \A name \in SheetNames :
                 cache'[name] = IF cache[name].present /\ cache[name].age + d < TTL
                                THEN [cache[name] EXCEPT !.age = cache[name].age + d]
                                ELSE NoEntry
       /\ ~TimePasses =>
             \A name \in SheetNames :
                 cache[name].present => cache'[name] = cache[name]
       /\ \A u \in Users : (Generates(u) /\ Holding(u)') =>
             sess'[u].cached_values = cache'[Names[sess'[u].tab]].data
      ]_vars

\* a session holds the rows of an entry that has aged and lacks a row the
\* Complaints sheet has gained since
C16_Witness ==
    \E u \in Users :
        /\ Holding(u) /\ sess[u].tab = 1
        /\ cache["Complaints"].present /\ cache["Complaints"].age > 0
        /\ sess[u].cached_values = cache["Complaints"].data
        /\ Len(store["Complaints"]) > Len(cache["Complaints"].data)

\* C17: append_row leaves every cache entry as it was, and while an entry
\* lives every fetch returns its rows as they are, without the appended
\* row: to the next allocation and to My Submissions, the appending user's
\* own included.
C17_AppendLeavesCache ==
    [][/\ \A u \in Users : (sess[u].pc = "append" /\ store' # store) => cache' = cache
       /\ \A u \in Users : (Generates(u) /\ Holding(u)') =>
             (cache[Names[sess[u].tab]].present =>
                 sess'[u].cached_values = cache[Names[sess[u].tab]].data)
       /\ \A u \in Users : (sess[u].pc = "my" /\ sess'[u] # sess[u] /\ out'.msg = "mine") =>
             \A name \in SheetNames :
                 cache[name].present =>
                     out'.data[name] = user_records(cache[name].data, u)
      ]_vars

\* Al's My Submissions shows no complaint while the Complaints sheet holds
\* the complaint Al's run appended, the entry made before the append living
C17_Witness ==
    /\ out.msg = "mine" /\ out.user = Al
    /\ out.data["Complaints"] = <<>>
    /\ cache["Complaints"].present
    /\ cache["Complaints"].data = <<Header("Complaints")>>
    /\ \E k \in Rows("Complaints") : SubmitterOf(store["Complaints"][k]) = Al

----------------------------------------------------------------------------
(* Attachments *)

UrlOf(row) == row[Len(row)]

\* C18: a submission with an attachment uploads it after the allocation and
\* before the append, under the name RecordId_filename with the RecordId
\* the row then carries, and the row's last cell is the link that upload
\* returned; a submission without attachment uploads nothing and its row's
\* last cell is empty.
C18_UploadBetweenAllocateAndAppend ==
    [][/\ \A u \in Users : (SubmitPressed(u) /\ Holding(u)') =>
             /\ sess'[u].pc = IF sess'[u].file # NoFile THEN "upload" ELSE "append"
             /\ sess'[u].file_url = Empty
             /\ blobs' = blobs /\ store' = store
       /\ blobs' # blobs =>
             \E u \in Users :
                 /\ sess[u].pc = "upload" /\ sess[u].file # NoFile
                 /\ blobs' = Append(blobs, sess[u].id \o <<"_">> \o sess[u].file)
                 /\ store' = store
                 /\ sess'[u] = [sess[u] EXCEPT !.pc = "append",
                                              !.file_url = DriveUrl(Len(blobs'))]
       /\ \A u \in Users : (sess[u].pc = "append" /\ store' # store) =>
             LET name == Names[sess[u].tab]
                 row == store'[name][Len(store'[name])]
             IN  /\ IdOf(row) = sess[u].id
                 /\ UrlOf(row) = sess[u].file_url
                 /\ blobs' = blobs
                 /\ IF sess[u].file = NoFile
                    THEN UrlOf(row) = Empty
                    ELSE \E k \in 1..Len(blobs) :
                            /\ UrlOf(row) = DriveUrl(k)
                            /\ blobs[k] = IdOf(row) \o <<"_">> \o sess[u].file
      ]_vars

\* a deviation is stored with the link of the first file of the folder,
\* which is named after the deviation's RecordId
C18_Witness ==
    /\ Len(store["Deviation"]) = 2
    /\ UrlOf(store["Deviation"][2]) = DriveUrl(1)
    /\ blobs = <<IdOf(store["Deviation"][2]) \o <<"_", "f">> >>

----------------------------------------------------------------------------
(* Rows and their sheets *)

\* the prefix of each record type
OwnPrefix(name) == CASE name = "Complaints" -> <<"C">>
                     [] name = "Deviation" -> <<"D">>
                     [] name = "Change Control" -> <<"C", "C">>

\* C19: every row under the first row of a sheet has the cells of that
\* sheet's record type, with its RecordId in the second cell (index 1), and
\* the RecordId is that type's own prefix followed by "-": no submission
\* appends to the sheet of another type.
C19_RowsCarryOwnPrefix ==
    \A name \in SheetNames : \A k \in Rows(name) :
        LET row == store[name][k]
        IN  /\ Len(row) = Len(Header(name))
            /\ StartsWith(IdOf(row), OwnPrefix(name) \o <<"-">>)
            /\ \A other \in SheetNames \ {name} :
                  Len(OwnPrefix(other)) = Len(OwnPrefix(name)) =>
                      ~StartsWith(IdOf(row), OwnPrefix(other) \o <<"-">>)

\* a change request is stored under a CC RecordId
C19_Witness ==
    /\ Len(store["Change Control"]) = 2
    /\ StartsWith(IdOf(store["Change Control"][2]), <<"C", "C", "-">>)
    /\ store["Change Control"][2][3] = Equipment


====
